---- MODULE Spec2Model ----
(***************************************************************************)
(* A model of micromatch's index.js: the single-slot compilation cache of  *)
(* makeRe, the collection matcher match, the multi-pattern resolver        *)
(* micromatch, and isMatch, matchKeys and filter.                          *)
(*                                                                         *)
(* Strings are sequences of one-character strings.  An options object is a *)
(* heap slot holding, per property, "-" (no own property), "T" or "F".     *)
(* The module-level variables globRe, cache and optsCache of index.js are  *)
(* the variables of the same names; optsCache is a reference (a heap slot, *)
(* 0 while undefined), because the code keeps the caller's object itself.  *)
(***************************************************************************)
EXTENDS Naturals, Sequences, FiniteSets

VARIABLES
  globRe,     \* the cached regular expression
  cache,      \* the cached glob string
  optsCache,  \* the cached options object (a heap slot; 0: undefined)
  heap,       \* the options objects alive between calls
  built,      \* history: the glob and the options globRe was made from
  call,       \* the last call and its arguments, as passed
  result      \* what the last call returned

vars == <<globRe, cache, optsCache, heap, built, call, result>>

----------------------------------------------------------------------------
(* Bounds *)

\* caller-held options objects that stay alive between calls
MaxObjs == 1
\* longest candidate sequence a caller passes
MaxFiles == 2
\* longest pattern list a caller passes
MaxPats == 2

----------------------------------------------------------------------------
(* Strings *)

Bang == "!"
BSlash == "\\"
Slash == "/"

\* glob strings callers pass to makeRe (and, with a '!' in front, to match)
Globs == { <<"a">>, <<"d", Slash, "a">>, <<"d", BSlash, "a">>, <<Bang, "a">> }

\* candidate strings
Cands == { <<"a">>, <<"d", BSlash, "a">> }

\* patterns of match and micromatch
Patterns == { <<"a">>, <<Bang, "d", Slash, "a">>, <<Bang, Bang, "a">> }

startsWithBang(s) == Len(s) > 0 /\ s[1] = Bang

\* String.prototype.slice(1)
slice1(s) == IF s = <<>> THEN <<>> ELSE Tail(s)

----------------------------------------------------------------------------
(* Options objects *)

Props ==
  {"nocase", "negate", "nonegate", "nonull", "matchBase", "flags", "negated",
   "inclusive"}

NoProps == [p \in Props |-> "-"]

With(o, p, v) == [o EXCEPT ![p] = v]

\* the option objects callers of makeRe construct
Templates ==
  { NoProps,
    With(NoProps, "nocase", "T"),
    With(NoProps, "nocase", "F"),
    With(NoProps, "nonull", "T"),
    With(NoProps, "negated", "T") }

\* the option objects callers of match and micromatch construct
MatchTemplates ==
  { With(NoProps, "nonull", "T"),
    With(NoProps, "negate", "T"),
    With(NoProps, "nonegate", "T"),
    With(With(NoProps, "nonegate", "T"), "negate", "T"),
    With(NoProps, "matchBase", "T") }

truthy(v) == v = "T"

Slots == 1 .. (MaxObjs + 2)

FreeSlot == [used |-> FALSE, owned |-> FALSE, props |-> NoProps]

\* the slots of the caller-held objects
Owned(h) == {i \in Slots : h[i].used /\ h[i].owned}

\* a new object literal: the lowest free slot holds it
Alloc(h, props, owned) ==
  LET i == CHOOSE k \in Slots : ~h[k].used /\ \A j \in Slots : j < k => h[j].used
  IN  [heap |-> [h EXCEPT ![i] = [used |-> TRUE, owned |-> owned, props |-> props]],
       ref |-> i]

\* `options || {}`: reference 0 is undefined
orEmpty(h, ref) ==
  IF ref = 0 THEN Alloc(h, NoProps, FALSE) ELSE [heap |-> h, ref |-> ref]

\* objects that neither the caller nor optsCache references are garbage
collect(h, oc) ==
  [i \in Slots |-> IF h[i].used /\ (h[i].owned \/ i = oc) THEN h[i] ELSE FreeSlot]

----------------------------------------------------------------------------
(* lib/utils and lib/expand, the regular expression *)

\* utils.unixify: every backslash becomes a forward slash
unixify(s) == [i \in 1 .. Len(s) |-> IF s[i] = BSlash THEN Slash ELSE s[i]]

\* expand: the translator.  A leading '!' is the glob's own negation; the
\* rest is the fragment, which stays a glob here and is read by globTest.
expand(glob) ==
  IF startsWithBang(glob)
  THEN [glob |-> Tail(glob), negated |-> TRUE]
  ELSE [glob |-> glob, negated |-> FALSE]

lower(c) == IF c = "A" THEN "a" ELSE c

RECURSIVE globTest(_, _, _)
\* the fragment g matches the whole of s; '*' is any run without a slash
globTest(g, s, nocase) ==
  IF g = <<>> THEN s = <<>>
  ELSE IF Head(g) = "*"
       THEN \/ globTest(Tail(g), s, nocase)
            \/ (s # <<>> /\ Head(s) # Slash /\ globTest(g, Tail(s), nocase))
       ELSE /\ s # <<>>
            /\ IF nocase THEN lower(Head(g)) = lower(Head(s)) ELSE Head(g) = Head(s)
            /\ globTest(Tail(g), Tail(s), nocase)

Undefined == [tag |-> "undefined", frag |-> <<>>, neg |-> FALSE, flags |-> <<>>]
Null == [tag |-> "null", frag |-> <<>>, neg |-> FALSE, flags |-> <<>>]

\* a string value of the variable cache, which is undefined at first
NoStr == [tag |-> "undefined", s |-> <<>>]
Str(s) == [tag |-> "str", s |-> s]

\* '^(?:glob)$', or '^(?!^(?:glob)$).*$' when negate
wrapGlob(glob, negate) == [frag |-> glob, neg |-> negate]

\* new RegExp(source, flags)
RegExp(source, flags) ==
  [tag |-> "re", frag |-> source.frag, neg |-> source.neg, flags |-> flags]

isRegExp(v) == v.tag = "re"

hasFlag(re, f) == \E i \in 1 .. Len(re.flags) : re.flags[i] = f

\* RegExp.prototype.test
test(re, s) ==
  LET m == globTest(re.frag, s, hasFlag(re, "i"))
  IN  IF re.neg THEN ~m ELSE m

\* for each property of b: a has it as its own, with the same value
equal(a, b) == \A p \in Props : b[p] # "-" => (a[p] # "-" /\ a[p] = b[p])

----------------------------------------------------------------------------
(* makeRe *)

\* the module state an operation reads and writes
State ==
  [globRe |-> globRe, cache |-> cache, optsCache |-> optsCache, heap |-> heap,
   built |-> built]

\* nothing has been compiled
NoBuilt == [glob |-> <<>>, props |-> NoProps]

\* makeRe that writes opts.negated when it returns the cached matcher too
makeReWritesOnHit(st, glob, options) ==
  LET a == orEmpty(st.heap, options)
      opts == a.ref
      o == a.heap[opts].props
      flags0 == IF o["flags"] = "-" THEN <<>> ELSE <<o["flags"]>>
      optsCache1 == IF st.optsCache # 0 THEN st.optsCache ELSE opts
      changedOpts == ~equal(a.heap[optsCache1].props, o)
      cache1 == IF changedOpts THEN Str(glob) ELSE st.cache
      globRe1 == IF changedOpts THEN Null ELSE st.globRe
      cache2 == IF cache1.tag # "undefined" THEN cache1 ELSE Str(glob)
      changedGlob == cache2.s # glob
      glob3 == IF changedGlob THEN unixify(glob) ELSE glob
      cache3 == IF changedGlob THEN Str(glob3) ELSE cache2
      globRe3 == IF changedGlob THEN Null ELSE globRe1
  IN  IF isRegExp(globRe3)
      THEN [st |-> [globRe |-> globRe3, cache |-> cache3,
                    optsCache |-> optsCache1,
                    heap |-> [a.heap EXCEPT ![opts].props["negated"] =
                                IF truthy(o["negated"]) THEN "T" ELSE "F"],
                    built |-> st.built],
            re |-> globRe3, xglobs |-> <<>>]
      ELSE LET flags == IF truthy(o["nocase"]) THEN flags0 \o <<"i">> ELSE flags0
               parsed == expand(glob3)
               negated == truthy(o["negated"]) \/ parsed.negated
               heap1 == [a.heap EXCEPT ![opts].props["negated"] =
                                          IF negated THEN "T" ELSE "F"]
               re == RegExp(wrapGlob(parsed.glob, negated), flags)
           IN  [st |-> [globRe |-> re, cache |-> cache3,
                        optsCache |-> optsCache1, heap |-> heap1,
                        built |-> [glob |-> glob3, props |-> heap1[opts].props]],
                re |-> re, xglobs |-> <<glob3>>]

makeRe(st, glob, options) ==
  LET a == orEmpty(st.heap, options)
      opts == a.ref
      o == a.heap[opts].props
      flags0 == IF o["flags"] = "-" THEN <<>> ELSE <<o["flags"]>>
      optsCache1 == IF st.optsCache # 0 THEN st.optsCache ELSE opts
      changedOpts == ~equal(a.heap[optsCache1].props, o)
      cache1 == IF changedOpts THEN Str(glob) ELSE st.cache
      globRe1 == IF changedOpts THEN Null ELSE st.globRe
      cache2 == IF cache1.tag # "undefined" THEN cache1 ELSE Str(glob)
      changedGlob == cache2.s # glob
      glob3 == IF changedGlob THEN unixify(glob) ELSE glob
      cache3 == IF changedGlob THEN Str(glob3) ELSE cache2
      globRe3 == IF changedGlob THEN Null ELSE globRe1
  IN  IF isRegExp(globRe3)
      THEN [st |-> [globRe |-> globRe3, cache |-> cache3,
                    optsCache |-> optsCache1, heap |-> a.heap,
                    built |-> st.built],
            re |-> globRe3, xglobs |-> <<>>]
      ELSE LET flags == IF truthy(o["nocase"]) THEN flags0 \o <<"i">> ELSE flags0
               parsed == expand(glob3)
               negated == truthy(o["negated"]) \/ parsed.negated
               heap1 == [a.heap EXCEPT ![opts].props["negated"] =
                                          IF negated THEN "T" ELSE "F"]
               re == RegExp(wrapGlob(parsed.glob, negated), flags)
           IN  [st |-> [globRe |-> re, cache |-> cache3,
                        optsCache |-> optsCache1, heap |-> heap1,
                        built |-> [glob |-> glob3, props |-> heap1[opts].props]],
                re |-> re, xglobs |-> <<glob3>>]

----------------------------------------------------------------------------
(* arr-diff, filename-regex, utils.arrayify *)

Range(q) == {q[i] : i \in 1 .. Len(q)}

\* diff(a, b): the elements of a that are not in b, in a's order
diff(a, b) ==
  LET keep(x) == x \notin Range(b)
  IN  SelectSeq(a, keep)

\* fileRe().exec(fp): the run of characters after the last separator, or
\* null (here the empty string) when fp is empty or ends in a separator
basename(fp) ==
  LET seps == {i \in 1 .. Len(fp) : fp[i] \in {Slash, BSlash}}
      from == IF seps = {} THEN 1
              ELSE 1 + CHOOSE i \in seps : \A j \in seps : j <= i
  IN  SubSeq(fp, from, Len(fp))

\* an argument that is absent, one string, or a sequence of strings
Absent == [kind |-> "absent", list |-> <<>>]
OneString(s) == [kind |-> "string", list |-> <<s>>]
Strings(q) == [kind |-> "seq", list |-> q]

\* !x of JavaScript for such an argument: undefined and '' are falsy, an
\* array (the empty one too) is not
falsy(x) == x.kind = "absent" \/ (x.kind = "string" /\ x.list[1] = <<>>)

\* utils.arrayify
arrayify(x) == Strings(x.list)

----------------------------------------------------------------------------
(* isMatch, match, micromatch *)

\* values an operation returns or throws
List(q) == [tag |-> "list", list |-> q, re |-> Undefined]
Matcher(re) == [tag |-> "re", list |-> <<>>, re |-> re]
Thrown(what) == [tag |-> what, list |-> <<>>, re |-> Undefined]

\* isMatch(fp, pattern, opts) for a pattern that is a RegExp: "T", "F", or
\* "E" when matches is null and matches[0] throws
isMatch(fp, pattern, o) ==
  IF truthy(o["matchBase"])
  THEN IF basename(fp) = <<>> THEN "E"
       ELSE IF test(pattern, basename(fp)) THEN "T"
       ELSE IF test(pattern, fp) THEN "T" ELSE "F"
  ELSE IF test(pattern, fp) THEN "T" ELSE "F"

\* the strings handed to isMatch, in the order q, until one throws
testedOf(q, pattern, o) ==
  LET bad == {i \in 1 .. Len(q) : isMatch(q[i], pattern, o) = "E"}
  IN  IF bad = {} THEN q
      ELSE SubSeq(q, 1, CHOOSE i \in bad : \A j \in bad : i <= j)

\* notStringOrArray with the test left out
acceptsAnything(files) == FALSE

\* typeof files !== 'string' && !Array.isArray(files)
notStringOrArray(files) == files.kind \notin {"string", "seq"}

\* negateOf with opts.negate kept when the pattern has no leading '!'
negateOfForced(pattern, o) ==
  IF o["nonegate"] # "T"
  THEN startsWithBang(pattern) \/ truthy(o["negate"])
  ELSE truthy(o["negate"])

\* opts.negate || false, replaced by the pattern's leading '!' unless
\* opts.nonegate is true
negateOf(pattern, o) ==
  IF o["nonegate"] # "T" THEN startsWithBang(pattern) ELSE truthy(o["negate"])

\* a is the value of options || {} and m that of makeRe(pattern, opts): each
\* is assigned once, so it is bound to the one element of a singleton
match(st, files, pattern, options) ==
  IF notStringOrArray(files)
  THEN [st |-> st, val |-> Thrown("Error"), xglobs |-> <<>>, compiles |-> 0,
        tested |-> <<>>]
  ELSE
    (CHOOSE y5 \in {
      LET opts == a.ref
          negate == negateOf(pattern, a.heap[opts].props)
          pattern1 == IF a.heap[opts].props["nonegate"] # "T" /\ negate
                      THEN slice1(pattern) ELSE pattern
      IN  (CHOOSE y4 \in {
            LET list == arrayify(files).list
                o == m.st.heap[opts].props
                fps == [i \in 1 .. Len(list) |-> unixify(list[i])]
                kept(fp) == isMatch(fp, m.re, o) = "T"
                res == SelectSeq(fps, kept)
                val == IF \E i \in 1 .. Len(fps) : isMatch(fps[i], m.re, o) = "E"
                       THEN Thrown("TypeError")
                       ELSE IF negate THEN List(diff(list, res))
                       ELSE IF truthy(o["nonull"]) /\ res = <<>> THEN Matcher(m.re)
                       ELSE List(res)
            IN  [st |-> m.st, val |-> val, xglobs |-> m.xglobs, compiles |-> 1,
                 tested |-> testedOf(fps, m.re, o)] :
      m \in {makeRe([st EXCEPT !.heap = a.heap], pattern1, opts)}} : TRUE) :
      a \in {orEmpty(st.heap, options)}} : TRUE)

RECURSIVE matchEachSwapped(_, _, _, _, _, _, _)
\* matchEach with the two branches of the if exchanged
matchEachSwapped(st, files, patterns, i, opts, res, neg) ==
  IF i > Len(patterns)
  THEN [st |-> st.st, val |-> List(diff(res, neg)), xglobs |-> st.xglobs,
        compiles |-> st.compiles, tested |-> st.tested]
  ELSE
    (CHOOSE y3 \in {
      LET st1 == [st |-> r.st, xglobs |-> st.xglobs \o r.xglobs,
                  compiles |-> st.compiles + r.compiles,
                  tested |-> st.tested \o r.tested]
      IN  IF r.val.tag \notin {"list", "re"}
          THEN [st |-> r.st, val |-> r.val, xglobs |-> st1.xglobs,
                compiles |-> st1.compiles, tested |-> st1.tested]
          ELSE IF startsWithBang(patterns[i])
               THEN matchEachSwapped(st1, files, patterns, i + 1, opts,
                                     res \o r.val.list, neg)
               ELSE matchEachSwapped(st1, files, patterns, i + 1, opts,
                                     res, neg \o r.val.list) :
      r \in {match(st.st, files,
               IF startsWithBang(patterns[i]) THEN slice1(patterns[i])
               ELSE patterns[i], opts)}} : TRUE)

RECURSIVE matchEach(_, _, _, _, _, _, _)
\* the while loop of micromatch from patterns[i] on; st carries the module
\* state and what the match calls made so far did, res and neg what they
\* returned
matchEach(st, files, patterns, i, opts, res, neg) ==
  IF i > Len(patterns)
  THEN [st |-> st.st, val |-> List(diff(res, neg)), xglobs |-> st.xglobs,
        compiles |-> st.compiles, tested |-> st.tested]
  ELSE
    (CHOOSE y2 \in {
      LET st1 == [st |-> r.st, xglobs |-> st.xglobs \o r.xglobs,
                  compiles |-> st.compiles + r.compiles,
                  tested |-> st.tested \o r.tested]
      IN  IF r.val.tag \notin {"list", "re"}
          THEN [st |-> r.st, val |-> r.val, xglobs |-> st1.xglobs,
                compiles |-> st1.compiles, tested |-> st1.tested]
          ELSE IF startsWithBang(patterns[i])
               THEN matchEach(st1, files, patterns, i + 1, opts,
                              res, neg \o r.val.list)
               ELSE matchEach(st1, files, patterns, i + 1, opts,
                              res \o r.val.list, neg) :
      r \in {match(st.st, files,
               IF startsWithBang(patterns[i]) THEN slice1(patterns[i])
               ELSE patterns[i], opts)}} : TRUE)

micromatch(st, files, patterns, options) ==
  IF falsy(files) \/ falsy(patterns)
  THEN [st |-> st, val |-> List(<<>>), xglobs |-> <<>>, compiles |-> 0,
        tested |-> <<>>]
  ELSE
    (CHOOSE y1 \in {
      IF patterns.kind = "string"
      THEN match([st EXCEPT !.heap = a.heap], arrayify(files),
                 patterns.list[1], a.ref)
      ELSE matchEach([st |-> [st EXCEPT !.heap = a.heap], xglobs |-> <<>>,
                      compiles |-> 0, tested |-> <<>>],
                     arrayify(files), patterns.list, 1, a.ref, <<>>, <<>>) :
      a \in {orEmpty(st.heap, options)}} : TRUE)

----------------------------------------------------------------------------
(* isMatch as an operation of its own *)

\* a pattern argument that is a regular expression of the caller's,
\* /^(?:frag)$/
RegExpArg(frag) == [kind |-> "regexp", list |-> <<frag>>]

\* pattern instanceof RegExp ? pattern : makeRe(pattern, options)
compiled(st, pattern, options) ==
  IF pattern.kind = "regexp"
  THEN [st |-> st, re |-> RegExp(wrapGlob(pattern.list[1], FALSE), <<>>),
        xglobs |-> <<>>, compiles |-> 0]
  ELSE (CHOOSE y6 \in {
          [st |-> m.st, re |-> m.re, xglobs |-> m.xglobs, compiles |-> 1] :
        m \in {makeRe(st, pattern.list[1], options)}} : TRUE)

\* the boolean results
True == [tag |-> "true", list |-> <<>>, re |-> Undefined]
False == [tag |-> "false", list |-> <<>>, re |-> Undefined]

\* "T", "F" or "E" of isMatch as the value returned or thrown
boolOrThrow(v) ==
  IF v = "E" THEN Thrown("TypeError") ELSE IF v = "T" THEN True ELSE False

\* opts && opts.matchBase reads no property of an undefined opts
propsOrNone(h, options) == IF options = 0 THEN NoProps ELSE h[options].props

\* isMatch(fp, pattern, opts) for a pattern that is a string or a RegExp
isMatchCall(st, fp, pattern, options) ==
  (CHOOSE y7 \in {
     [st |-> m.st,
      val |-> boolOrThrow(isMatch(fp, m.re, propsOrNone(m.st.heap, options))),
      xglobs |-> m.xglobs, compiles |-> m.compiles, tested |-> <<fp>>] :
   m \in {compiled(st, pattern, options)}} : TRUE)

----------------------------------------------------------------------------
(* matchKeys *)

\* an object is the sequence of its <<key, value>> pairs in insertion order
Object(pairs) == [tag |-> "object", list |-> pairs, re |-> Undefined]
Mapping(pairs) == [kind |-> "object", list |-> pairs]

Reverse(q) == [i \in 1 .. Len(q) |-> q[Len(q) + 1 - i]]

\* matchKeys with the test of the key inverted
matchKeysRejected(st, pattern, obj, options) ==
  (CHOOSE y8 \in {
     LET accepted(pair) == ~test(m.re, pair[1])
         keys == [i \in 1 .. Len(obj) |-> obj[i][1]]
     IN  [st |-> m.st, val |-> Object(SelectSeq(Reverse(obj), accepted)),
          xglobs |-> m.xglobs, compiles |-> m.compiles,
          tested |-> Reverse(keys)] :
   m \in {compiled(st, pattern, options)}} : TRUE)

\* matchKeys(pattern, obj, options): the keys are visited from the last to
\* the first, and res gets the pairs whose key re.test accepts
matchKeys(st, pattern, obj, options) ==
  (CHOOSE y9 \in {
     LET accepted(pair) == test(m.re, pair[1])
         keys == [i \in 1 .. Len(obj) |-> obj[i][1]]
     IN  [st |-> m.st, val |-> Object(SelectSeq(Reverse(obj), accepted)),
          xglobs |-> m.xglobs, compiles |-> m.compiles,
          tested |-> Reverse(keys)] :
   m \in {compiled(st, pattern, options)}} : TRUE)

----------------------------------------------------------------------------
(* filter and the function it returns *)

\* the function filter returns: it keeps pattern, a RegExp by then, and opts
Fn(re) == [tag |-> "fn", list |-> <<>>, re |-> re]

\* filter(pattern, opts)
filter(st, pattern, options) ==
  (CHOOSE y10 \in {
     (CHOOSE y11 \in {
        [st |-> m.st, val |-> Fn(m.re), xglobs |-> m.xglobs,
         compiles |-> m.compiles, tested |-> <<>>, opts |-> m.st.heap[a.ref].props] :
      m \in {compiled([st EXCEPT !.heap = a.heap], pattern, a.ref)}} : TRUE) :
   a \in {orEmpty(st.heap, options)}} : TRUE)

\* the function of filter with the non-matches spliced out of files itself
fnCallInPlace(pattern, o, files) ==
  IF files.kind = "string"
  THEN LET match0 == isMatch(files.list[1], pattern, o)
       IN  [val |-> IF truthy(o["inclusive"]) /\ match0 = "T" THEN True
                    ELSE boolOrThrow(match0),
            files |-> files, tested |-> files.list]
  ELSE IF files.kind # "seq"
  THEN [val |-> Thrown("TypeError"), files |-> files, tested |-> <<>>]
  ELSE LET m(fp) == isMatch(fp, pattern, o) = "T"
           back == Reverse(files.list)
           res == SelectSeq(files.list, m)
       IN  IF testedOf(back, pattern, o) # back
           THEN [val |-> Thrown("TypeError"), files |-> files,
                 tested |-> testedOf(back, pattern, o)]
           ELSE [val |-> List(res), files |-> Strings(res), tested |-> back]

\* function (files) { ... }: what it returns or throws, the caller's files
\* after the call, and the strings handed to isMatch.  For a string, match
\* is a boolean, so `match !== false` is `match`; for an array the loop
\* runs from the last element to the first over the copy res.
fnCall(pattern, o, files) ==
  IF files.kind = "string"
  THEN LET match0 == isMatch(files.list[1], pattern, o)
       IN  [val |-> IF truthy(o["inclusive"]) /\ match0 = "T" THEN True
                    ELSE boolOrThrow(match0),
            files |-> files, tested |-> files.list]
  ELSE IF files.kind # "seq"
  THEN [val |-> Thrown("TypeError"), files |-> files, tested |-> <<>>]
  ELSE LET m(fp) == isMatch(fp, pattern, o) = "T"
           back == Reverse(files.list)
           res == SelectSeq(files.list, m)
       IN  IF testedOf(back, pattern, o) # back
           THEN [val |-> Thrown("TypeError"), files |-> files,
                 tested |-> testedOf(back, pattern, o)]
           ELSE [val |-> List(res), files |-> files, tested |-> back]

----------------------------------------------------------------------------
(* Calls *)

NoOpts == [kind |-> "absent", ref |-> 0, props |-> NoProps, keep |-> FALSE]

\* the options argument of a call: nothing, an object the caller holds, or
\* a new object (which the caller keeps, or drops after the call)
OptArgs(templates, maxOwned) ==
  {NoOpts}
  \cup {[kind |-> "ref", ref |-> i, props |-> heap[i].props, keep |-> TRUE] :
          i \in Owned(heap)}
  \cup {[kind |-> "new", ref |-> 0, props |-> t, keep |-> k] :
          t \in templates,
          k \in IF Cardinality(Owned(heap)) < maxOwned THEN BOOLEAN ELSE {FALSE}}

\* a caller that passes nothing or an object literal of its own to each call
LiteralArgs == OptArgs(MatchTemplates, 0)

\* a caller that may also hold on to the objects it passes
HeldArgs == OptArgs(Templates, MaxObjs)

\* the heap and the reference the callee receives
given(a) ==
  IF a.kind = "new" THEN Alloc(heap, a.props, a.keep)
  ELSE [heap |-> heap, ref |-> a.ref]

\* ref is the options reference the callee received (0: undefined)
NoCall == [op |-> "none", files |-> Absent, pats |-> Absent, opts |-> NoOpts, ref |-> 0]

\* what a call returned or threw (val), the globs it handed to expand, the
\* makeRe calls it made, the strings it handed to isMatch, and the caller's
\* options object and candidates as they are after the call
NoResult ==
  [val |-> Thrown("none"), xglobs |-> <<>>, compiles |-> 0, tested |-> <<>>,
   opts |-> NoProps, files |-> Absent]

\* the properties of the caller's options object in the heap h
propsAfter(h, ref) == IF ref = 0 THEN NoProps ELSE h[ref].props

Outcome(r, ref, files) ==
  [val |-> r.val, xglobs |-> r.xglobs, compiles |-> r.compiles,
   tested |-> r.tested, opts |-> propsAfter(r.st.heap, ref), files |-> files]

Init ==
  /\ globRe = Undefined
  /\ cache = NoStr
  /\ optsCache = 0
  /\ heap = [i \in Slots |-> FreeSlot]
  /\ built = NoBuilt
  /\ call = NoCall
  /\ result = NoResult

\* the module state after an operation
Store(st) ==
  /\ globRe' = st.globRe
  /\ cache' = st.cache
  /\ optsCache' = st.optsCache
  /\ heap' = collect(st.heap, st.optsCache)
  /\ built' = st.built

\* micromatch.makeRe(glob, options)
CallMakeRe(args) ==
  \E g \in Globs, a \in args :
    \E g0 \in {given(a)} :
      \E r \in {makeRe([State EXCEPT !.heap = g0.heap], g, g0.ref)} :
        /\ Store(r.st)
        /\ call' = [op |-> "makeRe", files |-> Absent, pats |-> OneString(g),
                    opts |-> a, ref |-> g0.ref]
        /\ result' = [val |-> Matcher(r.re), xglobs |-> r.xglobs, compiles |-> 1,
                      tested |-> <<>>,
                      opts |-> propsAfter(r.st.heap, g0.ref),
                      files |-> Absent]

\* candidate arguments: nothing, a string ('' too), a sequence of strings
SeqsUpTo(S, n) == UNION {[1 .. k -> S] : k \in 0 .. n}

FileArgs ==
  {Absent} \cup {OneString(f) : f \in Cands \cup {<<>>}}
           \cup {Strings(q) : q \in SeqsUpTo(Cands, MaxFiles)}

PatternArgs ==
  {Absent} \cup {OneString(g) : g \in Patterns \cup {<<>>}}
           \cup {Strings(q) : q \in SeqsUpTo(Patterns, MaxPats)}

\* micromatch.match(files, pattern, opts)
CallMatch ==
  \E f \in FileArgs, g \in Patterns, a \in LiteralArgs :
    \E g0 \in {given(a)} :
      \E r \in {match([State EXCEPT !.heap = g0.heap], f, g, g0.ref)} :
        /\ Store(r.st)
        /\ call' = [op |-> "match", files |-> f, pats |-> OneString(g),
                    opts |-> a, ref |-> g0.ref]
        /\ result' = Outcome(r, g0.ref, f)

\* micromatch(files, patterns, opts)
CallMicromatch ==
  \E f \in FileArgs, g \in PatternArgs, a \in LiteralArgs :
    \E g0 \in {given(a)} :
      \E r \in {micromatch([State EXCEPT !.heap = g0.heap], f, g, g0.ref)} :
        /\ Store(r.st)
        /\ call' = [op |-> "micromatch", files |-> f, pats |-> g,
                    opts |-> a, ref |-> g0.ref]
        /\ result' = Outcome(r, g0.ref, f)

\* candidate strings handed to isMatch directly
Paths == Cands \cup {<<>>, <<"d", Slash>>, <<"d", Slash, "a">>}

\* pattern arguments of isMatch, matchKeys and filter
PatternOrRegExp == {OneString(g) : g \in Globs} \cup {RegExpArg(<<"a">>)}

\* micromatch.isMatch(fp, pattern, opts)
CallIsMatch ==
  \E fp \in Paths, g \in PatternOrRegExp, a \in LiteralArgs :
    \E g0 \in {given(a)} :
      \E r \in {isMatchCall([State EXCEPT !.heap = g0.heap], fp, g, g0.ref)} :
        /\ Store(r.st)
        /\ call' = [op |-> "isMatch", files |-> OneString(fp), pats |-> g,
                    opts |-> a, ref |-> g0.ref]
        /\ result' = Outcome(r, g0.ref, OneString(fp))

\* the objects handed to matchKeys
Mappings ==
  { <<>>,
    << << <<"a">>, 1 >> >>,
    << << <<"b">>, 2 >>, << <<"a">>, 1 >> >> }

\* micromatch.matchKeys(pattern, obj, options)
CallMatchKeys ==
  \E g \in PatternOrRegExp, obj \in Mappings, a \in LiteralArgs :
    \E g0 \in {given(a)} :
      \E r \in {matchKeys([State EXCEPT !.heap = g0.heap], g, obj, g0.ref)} :
        /\ Store(r.st)
        /\ call' = [op |-> "matchKeys", files |-> Mapping(obj), pats |-> g,
                    opts |-> a, ref |-> g0.ref]
        /\ result' = Outcome(r, g0.ref, Mapping(obj))

\* the option objects callers of filter construct
FilterTemplates ==
  { With(NoProps, "matchBase", "T"),
    With(NoProps, "inclusive", "T") }

FilterArgs == OptArgs(FilterTemplates, 0)

\* micromatch.filter(pattern, opts)
CallFilter ==
  \E g \in PatternOrRegExp, a \in FilterArgs :
    \E g0 \in {given(a)} :
      \E r \in {filter([State EXCEPT !.heap = g0.heap], g, g0.ref)} :
        /\ Store(r.st)
        /\ call' = [op |-> "filter", files |-> Absent, pats |-> g,
                    opts |-> a, ref |-> g0.ref]
        /\ result' = [val |-> r.val, xglobs |-> r.xglobs, compiles |-> r.compiles,
                      tested |-> <<>>, opts |-> r.opts, files |-> Absent]

\* the function that filter has just returned is called with files; it
\* holds the RegExp and the options object, which nothing else refers to
CallFn ==
  /\ call.op = "filter"
  /\ \E f \in FileArgs :
       \E r \in {fnCall(result.val.re, result.opts, f)} :
         /\ call' = [call EXCEPT !.op = "fn", !.files = f,
                                 !.opts.props = IF call.opts.kind = "absent"
                                                THEN NoProps ELSE result.opts]
         /\ result' = [val |-> r.val, xglobs |-> <<>>, compiles |-> 0,
                       tested |-> r.tested, opts |-> result.opts,
                       files |-> r.files]
  /\ UNCHANGED <<globRe, cache, optsCache, heap, built>>

\* the caller takes the result
Return ==
  /\ call.op # "none"
  /\ call' = NoCall
  /\ result' = NoResult
  /\ UNCHANGED <<globRe, cache, optsCache, heap, built>>

Idle == call.op = "none"

Next ==
  \/ Return
  \/ Idle /\ CallMakeRe(LiteralArgs)
  \/ Idle /\ CallMatch
  \/ Idle /\ CallMicromatch
  \/ Idle /\ CallIsMatch
  \/ Idle /\ CallMatchKeys
  \/ Idle /\ CallFilter
  \/ CallFn

Spec == Init /\ [][Next]_vars

NextMakeRe == CallMakeRe(HeldArgs)

SpecMakeRe == Init /\ [][NextMakeRe]_vars

----------------------------------------------------------------------------
(* The compilation cache: claims C5 to C8, under SpecMakeRe *)

\* the strings a matcher is tried on
Probes == {unixify(f) : f \in Cands} \cup {<<"A">>, <<"b">>, <<>>}

sameMatcher(r1, r2) == \A s \in Probes : test(r1, s) = test(r2, s)

\* this makeRe call returned the cached regular expression
cacheHit == call.op = "makeRe" /\ result.xglobs = <<>>

freshMakeRe(g, props) ==
  LET h == Alloc([i \in Slots |-> FreeSlot], props, TRUE)
  IN  makeRe([globRe |-> Undefined, cache |-> NoStr, optsCache |-> 0,
              heap |-> h.heap, built |-> NoBuilt], g, h.ref).re

\* C6: the result of a call depends on its arguments alone, not on the
\* calls made before it: makeRe(g, o) returns a matcher that accepts what
\* the matcher of the same call with no history accepts.
C6_ResultIndependentOfHistory ==
  call.op = "makeRe" =>
    sameMatcher(result.val.re, freshMakeRe(call.pats.list[1], call.opts.props))

\* the step is a makeRe call that repeats the makeRe call before it: the
\* same glob string and the same options object
repeatedMakeRe ==
  /\ call.op = "makeRe" /\ call'.op = "makeRe"
  /\ call'.pats = call.pats
  /\ call'.opts.kind = "ref" /\ call.ref # 0 /\ call'.ref = call.ref

\* C7: makeRe(g, o) called twice in a row returns, the second time, a
\* matcher that accepts exactly the strings the first one accepts.
C7_RepeatedMakeReEquivalent ==
  [][repeatedMakeRe => sameMatcher(result.val.re, result'.val.re)]_vars

\* C8: the second of two consecutive makeRe(g, o) calls does not invoke the
\* translator and returns the cached matcher.
C8_RepeatedMakeReHitsCache ==
  [][repeatedMakeRe => (result'.xglobs = <<>> /\ result'.val.re = globRe)]_vars

----------------------------------------------------------------------------
(* match and micromatch: claims C1 to C4, C9 and C10, under Spec *)

\* the module state and the options reference a call starts from, read in
\* the state before the call
entry(c) ==
  LET g0 == given(c.opts)
  IN  [st |-> [State EXCEPT !.heap = g0.heap], ref |-> g0.ref]

\* the candidate took part in the call as an array
isArray(x) == x.kind = "seq"

RECURSIVE yielded(_, _, _, _, _, _)
\* the strings the match calls of micromatch yield, from patterns[i] on,
\* for the patterns with a leading '!' (negative) or for the others
yielded(st, files, patterns, i, opts, negative) ==
  IF i > Len(patterns) THEN {}
  ELSE LET glob == patterns[i]
           r == match(st, files,
                      IF startsWithBang(glob) THEN Tail(glob) ELSE glob, opts)
       IN  (IF startsWithBang(glob) = negative THEN Range(r.val.list) ELSE {})
           \cup yielded(r.st, files, patterns, i + 1, opts, negative)

\* no pattern of the list is '!' followed by a string that starts with '!'
noDoubleBang(patterns) ==
  \A i \in 1 .. Len(patterns) :
    startsWithBang(patterns[i]) => ~startsWithBang(Tail(patterns[i]))

\* the step is micromatch(C, P, o) with a pattern list P, past the guard
resolvesList ==
  /\ call'.op = "micromatch"
  /\ isArray(call'.pats) /\ ~falsy(call'.files)
  /\ result'.val.tag = "list"

\* C1: micromatch(C, P, o), for a pattern list P with no remainder that
\* starts with '!', returns exactly the strings that match yields for some
\* pattern without a leading '!' and for no remainder of a pattern with one.
C1_ResolveIsPositivesMinusNegatives ==
  [][(resolvesList /\ noDoubleBang(call'.pats.list)) =>
       LET e == entry(call')
           a == orEmpty(e.st.heap, e.ref)
           st0 == [e.st EXCEPT !.heap = a.heap]
           files == arrayify(call'.files)
           pos == yielded(st0, files, call'.pats.list, 1, a.ref, FALSE)
           neg == yielded(st0, files, call'.pats.list, 1, a.ref, TRUE)
       IN  Range(result'.val.list) = pos \ neg]_vars

\* C1, its case: a list with a positive and a negative pattern, one
\* candidate kept and one excluded
C1_Witness ==
  /\ call.op = "micromatch"
  /\ call.files = Strings(<< <<"a">>, <<"d", BSlash, "a">> >>)
  /\ call.pats = Strings(<< <<"a">>, <<Bang, "d", Slash, "a">> >>)
  /\ truthy(call.opts.props["matchBase"])
  /\ result.val = List(<< <<"a">> >>)

\* C2: every element of match(C, p) is an element of C, in C's order, and a
\* kept candidate occurs as often as in C.
C2_MatchReturnsCandidates ==
  (call.op = "match" /\ result.val.tag = "list") =>
    LET inResult(c) == c \in Range(result.val.list)
    IN  result.val.list = SelectSeq(call.files.list, inResult)

\* C3: micromatch(C, [p], o) returns what match(C, p, o) returns, for p
\* without a leading '!'.
C3_SingletonListIsMatch ==
  [][(/\ call'.op = "micromatch"
      /\ isArray(call'.files)
      /\ isArray(call'.pats) /\ Len(call'.pats.list) = 1
      /\ ~startsWithBang(call'.pats.list[1])) =>
       LET e == entry(call')
       IN  result'.val = match(e.st, call'.files, call'.pats.list[1], e.ref).val]_vars

\* absent, the empty string or the empty sequence
empty(x) == falsy(x) \/ (isArray(x) /\ x.list = <<>>)

\* C4: micromatch returns the empty sequence at once when candidates or
\* patterns is absent or empty: makeRe is not called and the cache is as it
\* was.
C4_EmptyInputReturnsEmpty ==
  [][(call'.op = "micromatch" /\ (empty(call'.files) \/ empty(call'.pats))) =>
       /\ result'.val = List(<<>>)
       /\ result'.compiles = 0
       /\ UNCHANGED <<globRe, cache, optsCache>>]_vars

\* the candidate matches under the matcher makeRe returned to the call,
\* which is the one globRe holds after it
matches(c) == isMatch(unixify(c), globRe, call.opts.props) = "T"

\* the call is match(C, p, o) on a string or an array, and it returned
matched ==
  /\ call.op = "match"
  /\ call.files.kind \in {"string", "seq"}
  /\ result.val.tag \in {"list", "re"}

\* C9: with nonegate not true, match(C, '!' + q, o) returns exactly the
\* candidates of C that do not match q, in C's order.
C9_BangReturnsNonMatching ==
  (/\ matched
   /\ call.opts.props["nonegate"] # "T"
   /\ startsWithBang(call.pats.list[1])) =>
    LET unmatched(c) == ~matches(c)
    IN  result.val = List(SelectSeq(call.files.list, unmatched))

\* the call is match(C, p, o) with negate true, nonegate not true and no
\* leading '!' in p
negateWithoutBang ==
  /\ matched
   /\ call.opts.props["nonegate"] # "T"
   /\ truthy(call.opts.props["negate"])
   /\ ~startsWithBang(call.pats.list[1])

\* C10, as claimed: with nonegate not true and no leading '!', negate = true
\* makes match(C, p, o) return the candidates that do not match p.
C10_NegateForcesNegation ==
  negateWithoutBang =>
    LET unmatched(c) == ~matches(c)
    IN  result.val = List(SelectSeq(call.files.list, unmatched))

\* the normalized candidates that match, in C's order
keptOf(files) ==
  LET fps == [i \in 1 .. Len(files) |-> unixify(files[i])]
      accepted(fp) == isMatch(fp, globRe, call.opts.props) = "T"
  IN  SelectSeq(fps, accepted)

\* C10, amended: with nonegate not true and no leading '!', negate is not
\* read: match(C, p, o) returns the normalized candidates that match p (the
\* matcher itself when nonull is set and none matches).
C10_NegateIgnoredUnlessNonegate ==
  negateWithoutBang =>
    result.val = IF truthy(call.opts.props["nonull"]) /\ keptOf(call.files.list) = <<>>
                 THEN Matcher(globRe)
                 ELSE List(keptOf(call.files.list))

\* C10, its case: negate = true, and the matching candidate is returned
C10_Witness ==
  /\ negateWithoutBang
  /\ call.files = Strings(<< <<"a">>, <<"d", BSlash, "a">> >>)
  /\ call.pats = OneString(<<"a">>)
  /\ result.val = List(<< <<"a">> >>)

----------------------------------------------------------------------------
(* The operations and their inputs: claims C11 to C19 *)

usedRe ==
  IF call.pats.kind = "regexp"
  THEN RegExp(wrapGlob(call.pats.list[1], FALSE), <<>>)
  ELSE globRe

\* C12: with matchBase set, isMatch(c, m, o) never throws, and returns true
\* exactly when the matcher accepts the basename of c or accepts c; for a
\* candidate with no basename this is the test of c alone.
C12_MatchBaseNeverFails ==
  (call.op = "isMatch" /\ truthy(call.opts.props["matchBase"])) =>
    LET c == call.files.list[1]
        accepted == \/ (basename(c) # <<>> /\ test(usedRe, basename(c)))
                    \/ test(usedRe, c)
    IN  result.val = IF accepted THEN True ELSE False

\* the orders the patterns of a list can be given in
Permutations(q) ==
  LET n == Len(q)
      bij == {f \in [1 .. n -> 1 .. n] : \A i, j \in 1 .. n : f[i] = f[j] => i = j}
  IN  {[i \in 1 .. n |-> q[f[i]]] : f \in bij}

\* C13: the set of strings micromatch(C, P, o) returns is the same for
\* every order of the patterns of the list P.
C13_PatternOrderIrrelevant ==
  [][(call'.op = "micromatch" /\ isArray(call'.pats) /\ ~falsy(call'.files)) =>
       LET e == entry(call')
       IN  \A q \in Permutations(call'.pats.list) :
             LET r == micromatch(e.st, call'.files, Strings(q), e.ref)
             IN  /\ r.val.tag = result'.val.tag
                 /\ Range(r.val.list) = Range(result'.val.list)]_vars

\* the keys of an object
keysOf(pairs) == {pairs[i][1] : i \in 1 .. Len(pairs)}

\* C14: matchKeys(pattern, obj, options) returns a new object whose keys are
\* exactly the keys of obj that the compiled matcher accepts, each with the
\* value it has in obj, and obj is as it was.
C14_MatchKeysKeepsAcceptedPairs ==
  call.op = "matchKeys" =>
    /\ result.val.tag = "object"
    /\ keysOf(result.val.list) = {k \in keysOf(call.files.list) : test(usedRe, k)}
    /\ Range(result.val.list) \subseteq Range(call.files.list)
    /\ Cardinality(keysOf(result.val.list)) = Len(result.val.list)
    /\ result.files = call.files

\* C14, its case: of two keys one is accepted and one is not
C14_Witness ==
  /\ call.op = "matchKeys"
  /\ call.files = Mapping(<< << <<"b">>, 2 >>, << <<"a">>, 1 >> >>)
  /\ call.pats = OneString(<<"a">>)
  /\ result.val = Object(<< << <<"a">>, 1 >> >>)

normalized == {unixify(call.files.list[i]) : i \in 1 .. Len(call.files.list)}

\* C16: whenever match, micromatch or the function of filter tests a
\* candidate, the string tested is unixify of that candidate; and every
\* glob makeRe hands to expand is unixify of the glob makeRe was called with.
C16_TestedStringsNormalized ==
  /\ call.op \in {"match", "micromatch", "fn"} =>
       Range(result.tested) \subseteq normalized
  /\ call.op = "makeRe" =>
       \A i \in 1 .. Len(result.xglobs) :
         result.xglobs[i] = unixify(call.pats.list[1])

\* C17: after every makeRe(g, o) call optsCache is o, cache is g and globRe
\* is the matcher the call returned; a populated cache always holds a
\* matcher.
C17_CacheHoldsLastCall ==
  call.op = "makeRe" =>
    /\ call.opts.kind # "absent" => optsCache = call.ref
    /\ cache = Str(call.pats.list[1])
    /\ isRegExp(globRe) /\ globRe = result.val.re

\* C18: an operation changes nothing of what the caller passed but the
\* negated property of the options object, which a makeRe call that invokes
\* expand sets to (its value before OR the negated flag expand reports);
\* when expand is not invoked the options object is as it was.
C18_OnlyNegatedIsWritten ==
  /\ call.op # "none" => result.files = call.files
  /\ (call.op # "none" /\ call.opts.kind # "absent") =>
       /\ \A p \in Props \ {"negated"} : result.opts[p] = call.opts.props[p]
       /\ result.opts["negated"] =
            IF result.xglobs = <<>> THEN call.opts.props["negated"]
            ELSE IF \/ truthy(call.opts.props["negated"])
                    \/ \E i \in 1 .. Len(result.xglobs) : expand(result.xglobs[i]).negated
                 THEN "T" ELSE "F"

\* C18, its cases: expand reported negated and the flag was set on the
\* caller's object while its other properties stayed
C18_Witness ==
  /\ call.op = "micromatch"
  /\ call.opts.props = With(NoProps, "nonegate", "T")
  /\ result.opts = With(With(NoProps, "nonegate", "T"), "negated", "T")
  /\ Len(result.xglobs) = 2

\* a matcher compiled from q alone accepts the candidate c
accepts(q, c) ==
  isMatch(unixify(c), freshMakeRe(q, call.opts.props), call.opts.props) = "T"

\* C19: for a non-empty sequence C, micromatch with a list of patterns that
\* all start with '!' returns the empty sequence, and micromatch with the
\* string '!' + q returns the candidates of C that do not match q.
C19_AllNegativeListIsEmpty ==
  (call.op = "micromatch" /\ isArray(call.files) /\ call.files.list # <<>>) =>
    /\ (/\ isArray(call.pats) /\ call.pats.list # <<>>
        /\ \A i \in 1 .. Len(call.pats.list) : startsWithBang(call.pats.list[i])) =>
         result.val = List(<<>>)
    /\ (call.pats.kind = "string" /\ startsWithBang(call.pats.list[1])) =>
         LET rejected(c) == ~accepts(Tail(call.pats.list[1]), c)
         IN  result.val = List(SelectSeq(call.files.list, rejected))

====
